---- MODULE Spec2Model ----
(***************************************************************************)
(* A model of gallery_dl/extractor/bilibili.py: the payload locator        *)
(* (BilibiliAPI.article), the paginated listings (BilibiliAPI.user_articles*)
(* and BilibiliAPI.user_favlist over BilibiliAPI._call), the article       *)
(* assembler (BilibiliArticleExtractor.items) and the cookie check of the  *)
(* favorites listing (BilibiliUserArticlesFavoriteExtractor.articles).     *)
(***************************************************************************)
EXTENDS Integers, Sequences, FiniteSets, TLC

(***************************************************************************)
(* Bounds of the model.                                                    *)
(***************************************************************************)
\* longest page (in tokens) the web server answers with
MaxPageLen == 3
\* most challenge pages the web server serves during one article() call
MaxChallenges == 2
\* most pages the API server lets one listing walk through
MaxPages == 3
\* most items on one page of a listing
MaxItems == 2
\* most pictures in one album and in one paragraph
MaxPics == 2
\* most paragraphs in one module_content
MaxParagraphs == 2
\* most modules in an article whose modules come in any order
MaxModules == 3

(***************************************************************************)
(* Text of a web page, as a sequence of tokens.  INIT stands for the text  *)
(* "window.__INITIAL_STATE__=", END for "};", RISK for "window._riskdata_",*)
(* J1 and J2 for two JSON objects with their last "}" cut off, X for any   *)
(* other text and "}" for a closing brace.                                 *)
(***************************************************************************)
PageTokens == {"INIT", "END", "RISK", "J1", "J2", "X"}

RECURSIVE SeqsUpTo(_, _)
SeqsUpTo(S, n) ==
    IF n = 0 THEN {<< >>}
    ELSE LET shorter == SeqsUpTo(S, n - 1)
         IN  shorter \cup {Append(s, t) : s \in shorter, t \in S}

Pages == SeqsUpTo(PageTokens, MaxPageLen)

ArticleIds == {"12345", "777"}

\* str.index(sub, start): the first position >= start holding tok, 0 if none
Index(txt, tok, start) ==
    IF \E i \in start..Len(txt) : txt[i] = tok
    THEN CHOOSE i \in start..Len(txt) :
            /\ txt[i] = tok
            /\ \A j \in start..(i - 1) : txt[j] # tok
    ELSE 0

\* text.extr(txt, begin, end): the text between the first begin and the first
\* end after it, "" when either is missing
extr(txt, begin, end) ==
    LET b == Index(txt, begin, 1)
        first == b + 1
        e == IF b = 0 THEN 0 ELSE Index(txt, end, first)
    IN  IF b = 0 \/ e = 0 THEN << >> ELSE SubSeq(txt, first, e - 1)

\* util.json_loads succeeds on a complete JSON document only
json_valid(s) == Len(s) = 2 /\ s[1] \in {"J1", "J2"} /\ s[2] = "}"

\* util.json_loads(s), defined when json_valid(s)
json_loads(s) == [obj |-> s[1]]

\* the expression of the try block of article(): lines 144-145
InitialStateText(txt) == extr(txt, "INIT", "END") \o << "}" >>

\* "window._riskdata_" not in page
NoRiskMarker(txt) == \A i \in 1..Len(txt) : txt[i] # "RISK"

\* the seconds article() waits before it fetches again
Cooldown == 300

NoValue == [obj |-> "none"]
NoError == [cls |-> "none", msg |-> << >>]

VARIABLES
    article_id,   \* article(): its argument
    loc_pc,       \* article(): "request", "parse", "wait", "returned", "raised"
    page,         \* article(): the text of the page fetched last
    loc_result,   \* article(): the value returned
    loc_error,    \* article(): the exception raised
    loc_events,   \* the requests and waits article() made, in order
    loc_served,   \* what each fetched page was: [parsable, risk]
    w_kind,       \* per walk: "user_articles" or "user_favlist"
    user_id,      \* per walk: the argument of user_articles
    w_pc,         \* per walk: where the generator stands
    params,       \* per walk: the local dict params
    data,         \* per walk: the local data
    w_idx,        \* per walk: how many items of data the for loop has taken
    w_yielded,    \* per walk: the items handed to the caller, in order
    w_reqs,       \* per walk: the requests sent, in order
    w_pages,      \* per walk: the responses received, in order
    w_error,      \* per walk: the exception the generator raised
    w_pulls,      \* per walk: how often the caller asked for the next item
    log,          \* the extractor's log, in order
    asm_doc,      \* items(): the modules list api.article() returned
    asm_pc,       \* items(): the phase the article is in
    article,      \* items(): the dict article
    modules,      \* items(): the dict modules
    pics,         \* items(): the list pics
    asm_num,      \* items(): how many pictures the last loop has taken
    asm_events,   \* items(): the messages yielded, in order
    asm_error,    \* items(): the exception raised
    server,       \* the API server of this run: "any" response, or "few"
    fav_pc,       \* per favorites extractor: where it is in articles()
    fav_warning,  \* BilibiliUserArticlesFavoriteExtractor._warning
    cookies,      \* the names of the cookies of the session
    fav_checks    \* how often cookies_check() was called

locVars == << article_id, loc_pc, page, loc_result, loc_error, loc_events,
              loc_served >>

walkVars == << w_kind, user_id, w_pc, params, data, w_idx, w_yielded, w_reqs,
               w_pages, w_error, w_pulls >>

asmVars == << asm_doc, asm_pc, article, modules, pics, asm_num, asm_events,
              asm_error >>

favVars == << fav_pc, fav_warning, cookies, fav_checks >>

vars == << locVars, walkVars, asmVars, favVars, server, log >>

\* what the steps of article() leave alone
notLocVars == << walkVars, asmVars, favVars, server, log >>

\* what the steps of a listing walk leave alone, but for the log
notWalkVars == << locVars, asmVars, favVars, server >>

\* what the steps of items() leave alone, but for the log
notAsmVars == << locVars, walkVars, favVars, server >>

----------------------------------------------------------------------------
(***************************************************************************)
(* JSON of the listing endpoints.  The JSON values true, false and null    *)
(* are the strings "true", "false" and "null"; an object is a record and a *)
(* missing key is a missing field.                                         *)
(***************************************************************************)
Walks == {1, 2}

UserIds == {"42"}
OpusIds == {"o1", "o2"}

JsonNull == [null |-> TRUE]

Item(o) == [opus_id |-> o]

ItemLists == SeqsUpTo({Item(o) : o \in OpusIds}, MaxItems)

\* the values the server sends for has_more, when it sends the key
HasMoreValues == {"true", "false", "null"}

\* the "data" member of a response with code 0
DataObjects ==
    {[items |-> s, has_more |-> h] : s \in ItemLists, h \in HasMoreValues}
        \cup {[items |-> s] : s \in ItemLists}

ErrorCodes == {1, 0 - 352}

Responses ==
    {[code |-> 0, data |-> d] : d \in DataObjects}
        \cup {[code |-> c, data |-> d] :
                c \in ErrorCodes,
                d \in {JsonNull,
                       [items |-> << Item("o1") >>, has_more |-> "true"]}}

\* Python's truth value of a JSON value: not x is true of False and None
Truthy(v) == v \notin {"false", "null"}

\* dict.get(key): None when the key is missing
Get(d, key) == IF key \in DOMAIN d THEN d[key] ELSE "null"

\* d[key] = value on a dict
SetItem(d, key, value) ==
    [k \in DOMAIN d \cup {key} |-> IF k = key THEN value ELSE d[k]]

ApiRoot == "https://api.bilibili.com/x/polymer/web-dynamic/v1"

\* the server lets the walk go on after this response
Continues(resp) ==
    /\ resp.code = 0
    /\ "has_more" \in DOMAIN resp.data
    /\ Truthy(resp.data.has_more)

\* a server that gives a few of the responses only
FewResponses ==
    {[code |-> 0,
      data |-> [items |-> << Item("o1") >>, has_more |-> "true"]],
     [code |-> 0,
      data |-> [items |-> << Item("o2"), Item("o1") >>,
                has_more |-> "false"]],
     [code |-> 0, data |-> [items |-> << >>, has_more |-> "true"]],
     [code |-> 0, data |-> [items |-> << Item("o2") >>]],
     [code |-> 1, data |-> JsonNull]}

\* the responses the server of this run may give
Served == IF server = "few" THEN FewResponses ELSE Responses

\* no favorites extractor has run: _warning has its class value
FavIdle ==
    /\ fav_pc = [w \in Walks |-> "idle"]
    /\ fav_warning = TRUE
    /\ cookies = {}
    /\ fav_checks = 0

\* no listing has been called
WalkIdle ==
    /\ w_kind = [w \in Walks |-> "none"]
    /\ user_id = [w \in Walks |-> "none"]
    /\ w_pc = [w \in Walks |-> "idle"]
    /\ params = [w \in Walks |-> JsonNull]
    /\ data = [w \in Walks |-> JsonNull]
    /\ w_idx = [w \in Walks |-> 0]
    /\ w_yielded = [w \in Walks |-> << >>]
    /\ w_reqs = [w \in Walks |-> << >>]
    /\ w_pages = [w \in Walks |-> << >>]
    /\ w_error = [w \in Walks |-> NoError]
    /\ w_pulls = [w \in Walks |-> 0]
    /\ log = << >>

\* article() has not been called
LocIdle ==
    /\ article_id = "12345"
    /\ loc_pc = "idle"
    /\ page = << >>
    /\ loc_result = NoValue
    /\ loc_error = NoError
    /\ loc_events = << >>
    /\ loc_served = << >>

----------------------------------------------------------------------------
(***************************************************************************)
(* The article document api.article() returns.  A dict is a function on    *)
(* its keys.                                                               *)
(***************************************************************************)
EmptyDict == << >>

\* dict.update(other)
Update(d, other) ==
    [k \in DOMAIN d \cup DOMAIN other |->
        IF k \in DOMAIN other THEN other[k] ELSE d[k]]

\* del d[key]
Del(d, key) == [k \in DOMAIN d \ {key} |-> d[k]]

\* picture i of source src (0: the album, j: paragraph j); the pictures of
\* one article differ, and not all carry the same keys
Pic(src, i) ==
    IF i % 2 = 1
    THEN [url |-> << src, i >>, width |-> 100 * i, size |-> 7]
    ELSE [url |-> << src, i >>, height |-> 100 * i]

PicRun(src, n) == [i \in 1..n |-> Pic(src, i)]

\* module_top payloads: an album of 0..MaxPics pictures, or one where pics,
\* album or display is missing
TopPayloads ==
    {[display |-> [album |-> [pics |-> PicRun(0, n)]]] : n \in 0..MaxPics}
        \cup {[display |-> [album |-> [title |-> "t"]]],
              [display |-> [text |-> "t"]],
              [title |-> "t"]}

ParagraphShapes ==
    {[kind |-> "text", n |-> 0], [kind |-> "nopics", n |-> 0]}
        \cup {[kind |-> "pic", n |-> k] : k \in 0..MaxPics}

\* paragraph j: text only, a pic without pics, or a pic with n pictures
Paragraph(j, shape) ==
    IF shape.kind = "text" THEN [text |-> "t"]
    ELSE IF shape.kind = "nopics" THEN [pic |-> [style |-> 1]]
    ELSE [pic |-> [pics |-> PicRun(j, shape.n)]]

\* module_content payloads: up to MaxParagraphs paragraphs, or no paragraphs
\* key at all
ContentPayloads ==
    {[paragraphs |-> [j \in 1..Len(sh) |-> Paragraph(j, sh[j])]] :
        sh \in SeqsUpTo(ParagraphShapes, MaxParagraphs)}
        \cup {[title |-> "t"]}

AuthorModule(name) ==
    [module_type |-> "MODULE_TYPE_AUTHOR", module_author |-> [name |-> name]]

TopModule(payload) ==
    [module_type |-> "MODULE_TYPE_TOP", module_top |-> payload]

ContentModule(payload) ==
    [module_type |-> "MODULE_TYPE_CONTENT", module_content |-> payload]

\* articles of one author whose pictures vary
PictureArticles ==
    {<< AuthorModule("alice") >> \o top \o content :
        top \in {<< >>} \cup {<< TopModule(t) >> : t \in TopPayloads},
        content \in {<< >>}
            \cup {<< ContentModule(c) >> : c \in ContentPayloads}}

\* modules that come in any order and number
SimpleModules ==
    {AuthorModule("alice"), AuthorModule("bob"),
     [module_type |-> "MODULE_TYPE_AUTHOR", module_author |-> [mid |-> 1]],
     [module_type |-> "MODULE_TYPE_BLOCKED",
      module_blocked |-> [hint_message |-> "hint"]],
     [module_type |-> "MODULE_TYPE_BLOCKED", module_blocked |-> [icon |-> "i"]],
     [module_type |-> "MODULE_TYPE_BLOCKED"],
     TopModule([display |-> [album |-> [pics |-> PicRun(0, 1)]]]),
     ContentModule([paragraphs |->
         << [pic |-> [pics |-> PicRun(1, 1)]] >>])}

\* pictures that carry keys the article record has too
ClashPics ==
    {[url |-> << 9, 1 >>, num |-> 7],
     [url |-> << 9, 2 >>, count |-> 9, id |-> "p2"]}

\* articles whose album mixes such pictures with plain ones
ClashArticles ==
    {<< AuthorModule("alice"),
        TopModule([display |-> [album |-> [pics |-> album]]]) >> :
        album \in SeqsUpTo(ClashPics \cup {Pic(0, 1), Pic(0, 2)}, MaxPics)}

ModuleLists ==
    PictureArticles \cup ClashArticles
        \cup SeqsUpTo(SimpleModules, MaxModules)

\* items() has not been called
AsmIdle ==
    /\ asm_doc = << >>
    /\ asm_pc = "idle"
    /\ article = EmptyDict
    /\ modules = EmptyDict
    /\ pics = << >>
    /\ asm_num = 0
    /\ asm_events = << >>
    /\ asm_error = NoError

----------------------------------------------------------------------------
(***************************************************************************)
(* BilibiliAPI.article                                                     *)
(***************************************************************************)
ArticleUrl(id) == << "https://www.bilibili.com/opus/", id >>

IsChallenge(txt) == ~json_valid(InitialStateText(txt)) /\ ~NoRiskMarker(txt)

NumChallenges(served) ==
    Cardinality({i \in 1..Len(served) : ~served[i].parsable /\ served[i].risk})

InitArticle ==
    /\ article_id \in ArticleIds
    /\ loc_pc = "request"
    /\ page = << >>
    /\ loc_result = NoValue
    /\ loc_error = NoError
    /\ loc_events = << >>
    /\ loc_served = << >>
    /\ WalkIdle
    /\ AsmIdle
    /\ FavIdle
    /\ server = "any"

\* line 142: page = self.extractor.request(url).text
ArticleRequest ==
    /\ loc_pc = "request"
    /\ \E p \in Pages :
          /\ NumChallenges(loc_served) >= MaxChallenges => ~IsChallenge(p)
          /\ page' = p
          /\ loc_served' = Append(loc_served,
                [parsable |-> json_valid(InitialStateText(p)),
                 risk |-> ~NoRiskMarker(p)])
    /\ loc_events' = Append(loc_events,
          [op |-> "request", url |-> ArticleUrl(article_id), seconds |-> 0])
    /\ loc_pc' = "parse"
    /\ UNCHANGED << article_id, loc_result, loc_error >>
    /\ UNCHANGED notLocVars

\* lines 143-145: the try block returns the parsed payload
ArticleReturn ==
    /\ loc_pc = "parse"
    /\ json_valid(InitialStateText(page))
    /\ loc_result' = json_loads(InitialStateText(page))
    /\ loc_pc' = "returned"
    /\ UNCHANGED << article_id, page, loc_error, loc_events, loc_served >>
    /\ UNCHANGED notLocVars

\* ArticleExcept with the cooldown left out: a challenge page is fetched again
\* at once
ArticleExcept_NoWait ==
    /\ loc_pc = "parse"
    /\ ~json_valid(InitialStateText(page))
    /\ IF NoRiskMarker(page)
       THEN /\ loc_error' = [cls |-> "AbortExtraction",
                             msg |-> << article_id,
                                 ": Unable to extract INITIAL_STATE data" >>]
            /\ loc_pc' = "raised"
       ELSE /\ loc_pc' = "request"
            /\ UNCHANGED loc_error
    /\ UNCHANGED << article_id, page, loc_result, loc_events, loc_served >>
    /\ UNCHANGED notLocVars

\* ArticleExcept without the marker test: every page that fails to parse is
\* waited out
ArticleExcept_RetryAlways ==
    /\ loc_pc = "parse"
    /\ ~json_valid(InitialStateText(page))
    /\ loc_pc' = "wait"
    /\ UNCHANGED << article_id, page, loc_result, loc_error, loc_events,
                    loc_served >>
    /\ UNCHANGED notLocVars

\* ArticleExcept with a retry limit: the second challenge page is fatal
ArticleExcept_MaxRetries ==
    /\ loc_pc = "parse"
    /\ ~json_valid(InitialStateText(page))
    /\ IF NoRiskMarker(page) \/ Len(loc_served) >= 2
       THEN /\ loc_error' = [cls |-> "AbortExtraction",
                             msg |-> << article_id,
                                 ": Unable to extract INITIAL_STATE data" >>]
            /\ loc_pc' = "raised"
       ELSE /\ loc_pc' = "wait"
            /\ UNCHANGED loc_error
    /\ UNCHANGED << article_id, page, loc_result, loc_events, loc_served >>
    /\ UNCHANGED notLocVars

\* lines 146-149: the except block raises unless the page is a challenge
ArticleExcept ==
    /\ loc_pc = "parse"
    /\ ~json_valid(InitialStateText(page))
    /\ IF NoRiskMarker(page)
       THEN /\ loc_error' = [cls |-> "AbortExtraction",
                             msg |-> << article_id,
                                 ": Unable to extract INITIAL_STATE data" >>]
            /\ loc_pc' = "raised"
       ELSE /\ loc_pc' = "wait"
            /\ UNCHANGED loc_error
    /\ UNCHANGED << article_id, page, loc_result, loc_events, loc_served >>
    /\ UNCHANGED notLocVars

\* line 150: self.extractor.wait(seconds=300), then the loop starts over.
\* Nothing reads the old page text any more (line 142 assigns page before the
\* next read), so the dead value is dropped here.
ArticleWait ==
    /\ loc_pc = "wait"
    /\ loc_events' = Append(loc_events,
          [op |-> "wait", url |-> << >>, seconds |-> Cooldown])
    /\ page' = << >>
    /\ loc_pc' = "request"
    /\ UNCHANGED << article_id, loc_result, loc_error, loc_served >>
    /\ UNCHANGED notLocVars

NextArticle ==
    \/ ArticleRequest
    \/ ArticleReturn
    \/ ArticleExcept
    \/ ArticleWait

SpecArticle == InitArticle /\ [][NextArticle]_vars

\* the call runs on one thread that is never suspended for good
SpecArticleFair == SpecArticle /\ WF_vars(NextArticle)

----------------------------------------------------------------------------
(***************************************************************************)
(* BilibiliAPI.user_articles and BilibiliAPI.user_favlist: generators.     *)
(* A generator stands at "created" (called, body not begun), "call" (about *)
(* to call _call), "loop" (in the loop over the items), "check" (at the    *)
(* has_more test), "suspended" (at a yield), "done" (returned) or "raised".*)
(***************************************************************************)
Running(w) == w_pc[w] \in {"call", "loop", "check"}

AbortExtraction(msg) == [cls |-> "AbortExtraction", msg |-> << msg >>]

\* the items of the page the walk is on (lines 131 and 159)
PageItems(w) ==
    IF w_kind[w] = "user_articles" THEN data[w].data.items ELSE data[w].items

\* CallListing for a function that fetches the first page when it is called
CallListing_Eager(w) ==
    /\ w_pc[w] = "idle"
    /\ \E k \in {"user_articles", "user_favlist"} :
          /\ w_kind' = [w_kind EXCEPT ![w] = k]
          /\ \E u \in UserIds :
                /\ user_id' = [user_id EXCEPT ![w] =
                                  IF k = "user_articles" THEN u ELSE "none"]
                /\ params' = [params EXCEPT ![w] =
                                 IF k = "user_articles"
                                 THEN [host_mid |-> u]
                                 ELSE [page |-> 1, page_size |-> 20]]
    /\ w_pc' = [w_pc EXCEPT ![w] = "call"]
    /\ UNCHANGED << data, w_idx, w_yielded, w_reqs, w_pages, w_error,
                    w_pulls, log >>
    /\ UNCHANGED notWalkVars

\* lines 92 and 107: articles() calls the generator function, which runs
\* nothing of its body
CallListing(w) ==
    /\ w_pc[w] = "idle"
    /\ \E k \in {"user_articles", "user_favlist"} :
          /\ w_kind' = [w_kind EXCEPT ![w] = k]
          /\ \E u \in UserIds :
                user_id' = [user_id EXCEPT ![w] =
                               IF k = "user_articles" THEN u ELSE "none"]
    /\ w_pc' = [w_pc EXCEPT ![w] = "created"]
    /\ UNCHANGED << params, data, w_idx, w_yielded, w_reqs, w_pages, w_error,
                    w_pulls, log >>
    /\ UNCHANGED notWalkVars

\* lines 125-126 and 153-154: the first next() sets up endpoint and params
InitialParams(w) ==
    IF w_kind[w] = "user_articles"
    THEN [host_mid |-> user_id[w]]
    ELSE [page |-> 1, page_size |-> 20]

\* the caller asks for the next item: the generator starts, or goes on after
\* the yield it stands at; all of it runs on the caller's thread
Pull(w) ==
    /\ \A v \in Walks : ~Running(v)
    /\ w_pc[w] \in {"created", "suspended"}
    /\ w_pulls' = [w_pulls EXCEPT ![w] = @ + 1]
    /\ IF w_pc[w] = "created"
       THEN /\ params' = [params EXCEPT ![w] = InitialParams(w)]
            /\ w_pc' = [w_pc EXCEPT ![w] = "call"]
       ELSE /\ w_pc' = [w_pc EXCEPT ![w] = "loop"]
            /\ UNCHANGED params
    /\ UNCHANGED << w_kind, user_id, data, w_idx, w_yielded, w_reqs, w_pages,
                    w_error, log >>
    /\ UNCHANGED notWalkVars

Endpoint(w) ==
    IF w_kind[w] = "user_articles" THEN "/opus/feed/space" ELSE "/opus/feed/fav"

\* ApiCall that sends the request again when the code is not zero
ApiCall_Retry(w) ==
    /\ w_pc[w] = "call"
    /\ \E resp \in Served :
          /\ Len(w_reqs[w]) + 1 >= MaxPages => ~Continues(resp)
          /\ w_reqs' = [w_reqs EXCEPT ![w] =
                Append(@, [url |-> << ApiRoot, Endpoint(w) >>,
                           params |-> params[w]])]
          /\ w_pages' = [w_pages EXCEPT ![w] = Append(@, resp)]
          /\ IF resp.code # 0
             THEN /\ log' = Append(log, [level |-> "debug",
                                         msg |-> "Server response: %s",
                                         arg |-> resp])
                  /\ IF Len(w_reqs[w]) + 1 >= MaxPages
                     THEN /\ w_error' = [w_error EXCEPT ![w] =
                                 AbortExtraction("API request failed")]
                          /\ w_pc' = [w_pc EXCEPT ![w] = "raised"]
                     ELSE UNCHANGED << w_error, w_pc >>
                  /\ UNCHANGED << data, w_idx >>
             ELSE /\ data' = [data EXCEPT ![w] =
                        IF w_kind[w] = "user_articles" THEN resp
                        ELSE resp.data]
                  /\ w_idx' = [w_idx EXCEPT ![w] = 0]
                  /\ w_pc' = [w_pc EXCEPT ![w] = "loop"]
                  /\ UNCHANGED << log, w_error >>
    /\ UNCHANGED << w_kind, user_id, params, w_yielded, w_pulls >>
    /\ UNCHANGED notWalkVars

\* lines 114-122, called at lines 129 and 157: one request; a nonzero code is
\* logged and raised, otherwise the response is returned
ApiCall(w) ==
    /\ w_pc[w] = "call"
    /\ \E resp \in Served :
          /\ Len(w_reqs[w]) + 1 >= MaxPages => ~Continues(resp)
          /\ w_reqs' = [w_reqs EXCEPT ![w] =
                Append(@, [url |-> << ApiRoot, Endpoint(w) >>,
                           params |-> params[w]])]
          /\ w_pages' = [w_pages EXCEPT ![w] = Append(@, resp)]
          /\ IF resp.code # 0
             THEN /\ log' = Append(log, [level |-> "debug",
                                         msg |-> "Server response: %s",
                                         arg |-> resp])
                  /\ w_error' = [w_error EXCEPT ![w] =
                                    AbortExtraction("API request failed")]
                  /\ w_pc' = [w_pc EXCEPT ![w] = "raised"]
                  /\ UNCHANGED << data, w_idx >>
             ELSE /\ data' = [data EXCEPT ![w] =
                        IF w_kind[w] = "user_articles" THEN resp
                        ELSE resp.data]
                  /\ w_idx' = [w_idx EXCEPT ![w] = 0]
                  /\ w_pc' = [w_pc EXCEPT ![w] = "loop"]
                  /\ UNCHANGED << log, w_error >>
    /\ UNCHANGED << w_kind, user_id, params, w_yielded, w_pulls >>
    /\ UNCHANGED notWalkVars

\* ArticlesItems that takes the offset from the first item of the page
ArticlesItems_OffsetFirst(w) ==
    /\ w_pc[w] = "loop"
    /\ w_kind[w] = "user_articles"
    /\ IF w_idx[w] < Len(PageItems(w))
       THEN LET item == PageItems(w)[w_idx[w] + 1]
            IN  /\ w_idx' = [w_idx EXCEPT ![w] = @ + 1]
                /\ params' = [params EXCEPT ![w] =
                                 SetItem(@, "offset", PageItems(w)[1].opus_id)]
                /\ w_yielded' = [w_yielded EXCEPT ![w] = Append(@, item)]
                /\ w_pc' = [w_pc EXCEPT ![w] = "suspended"]
       ELSE /\ w_pc' = [w_pc EXCEPT ![w] = "check"]
            /\ UNCHANGED << w_idx, params, w_yielded >>
    /\ UNCHANGED << w_kind, user_id, data, w_reqs, w_pages, w_error, w_pulls,
                    log >>
    /\ UNCHANGED notWalkVars

\* lines 131-133: the next item sets the offset and is yielded; after the
\* last item the loop ends
ArticlesItems(w) ==
    /\ w_pc[w] = "loop"
    /\ w_kind[w] = "user_articles"
    /\ IF w_idx[w] < Len(PageItems(w))
       THEN LET item == PageItems(w)[w_idx[w] + 1]
            IN  /\ w_idx' = [w_idx EXCEPT ![w] = @ + 1]
                /\ params' = [params EXCEPT ![w] =
                                 SetItem(@, "offset", item.opus_id)]
                /\ w_yielded' = [w_yielded EXCEPT ![w] = Append(@, item)]
                /\ w_pc' = [w_pc EXCEPT ![w] = "suspended"]
       ELSE /\ w_pc' = [w_pc EXCEPT ![w] = "check"]
            /\ UNCHANGED << w_idx, params, w_yielded >>
    /\ UNCHANGED << w_kind, user_id, data, w_reqs, w_pages, w_error, w_pulls,
                    log >>
    /\ UNCHANGED notWalkVars

\* ArticlesHasMore with a strict test: only the boolean false ends the walk
ArticlesHasMore_Strict(w) ==
    /\ w_pc[w] = "check"
    /\ w_kind[w] = "user_articles"
    /\ IF "has_more" \notin DOMAIN data[w].data
       THEN /\ w_error' = [w_error EXCEPT ![w] =
                              [cls |-> "KeyError", msg |-> << "has_more" >>]]
            /\ w_pc' = [w_pc EXCEPT ![w] = "raised"]
       ELSE /\ w_pc' = [w_pc EXCEPT ![w] =
                   IF data[w].data.has_more = "false" THEN "done" ELSE "call"]
            /\ UNCHANGED w_error
    /\ UNCHANGED << w_kind, user_id, params, data, w_idx, w_yielded, w_reqs,
                    w_pages, w_pulls, log >>
    /\ UNCHANGED notWalkVars

\* ArticlesHasMore that reads the key with .get, as user_favlist does
ArticlesHasMore_Get(w) ==
    /\ w_pc[w] = "check"
    /\ w_kind[w] = "user_articles"
    /\ w_pc' = [w_pc EXCEPT ![w] =
           IF ~Truthy(Get(data[w].data, "has_more")) THEN "done" ELSE "call"]
    /\ UNCHANGED << w_kind, user_id, params, data, w_idx, w_yielded, w_reqs,
                    w_pages, w_error, w_pulls, log >>
    /\ UNCHANGED notWalkVars

\* ArticlesHasMore that also ends the walk on a page without items
ArticlesHasMore_StopOnEmpty(w) ==
    /\ w_pc[w] = "check"
    /\ w_kind[w] = "user_articles"
    /\ IF "has_more" \notin DOMAIN data[w].data
       THEN /\ w_error' = [w_error EXCEPT ![w] =
                              [cls |-> "KeyError", msg |-> << "has_more" >>]]
            /\ w_pc' = [w_pc EXCEPT ![w] = "raised"]
       ELSE /\ w_pc' = [w_pc EXCEPT ![w] =
                   IF \/ ~Truthy(data[w].data.has_more)
                      \/ data[w].data.items = << >>
                   THEN "done" ELSE "call"]
            /\ UNCHANGED w_error
    /\ UNCHANGED << w_kind, user_id, params, data, w_idx, w_yielded, w_reqs,
                    w_pages, w_pulls, log >>
    /\ UNCHANGED notWalkVars

\* lines 135-136: data["data"]["has_more"] must be there; a false value ends
\* the walk
ArticlesHasMore(w) ==
    /\ w_pc[w] = "check"
    /\ w_kind[w] = "user_articles"
    /\ IF "has_more" \notin DOMAIN data[w].data
       THEN /\ w_error' = [w_error EXCEPT ![w] =
                              [cls |-> "KeyError", msg |-> << "has_more" >>]]
            /\ w_pc' = [w_pc EXCEPT ![w] = "raised"]
       ELSE /\ w_pc' = [w_pc EXCEPT ![w] =
                   IF ~Truthy(data[w].data.has_more) THEN "done" ELSE "call"]
            /\ UNCHANGED w_error
    /\ UNCHANGED << w_kind, user_id, params, data, w_idx, w_yielded, w_reqs,
                    w_pages, w_pulls, log >>
    /\ UNCHANGED notWalkVars

\* line 159: yield from data["items"]
FavItems(w) ==
    /\ w_pc[w] = "loop"
    /\ w_kind[w] = "user_favlist"
    /\ IF w_idx[w] < Len(PageItems(w))
       THEN /\ w_idx' = [w_idx EXCEPT ![w] = @ + 1]
            /\ w_yielded' = [w_yielded EXCEPT ![w] =
                                Append(@, PageItems(w)[w_idx[w] + 1])]
            /\ w_pc' = [w_pc EXCEPT ![w] = "suspended"]
       ELSE /\ w_pc' = [w_pc EXCEPT ![w] = "check"]
            /\ UNCHANGED << w_idx, w_yielded >>
    /\ UNCHANGED << w_kind, user_id, params, data, w_reqs, w_pages, w_error,
                    w_pulls, log >>
    /\ UNCHANGED notWalkVars

\* FavHasMore that forgets to count the page up
FavHasMore_NoIncrement(w) ==
    /\ w_pc[w] = "check"
    /\ w_kind[w] = "user_favlist"
    /\ w_pc' = [w_pc EXCEPT ![w] =
           IF ~Truthy(Get(data[w], "has_more")) THEN "done" ELSE "call"]
    /\ UNCHANGED << w_kind, user_id, params, data, w_idx, w_yielded, w_reqs,
                    w_pages, w_error, w_pulls, log >>
    /\ UNCHANGED notWalkVars

\* FavHasMore with params kept on the API client: the page number of every
\* favorites walk under way goes up
FavHasMore_SharedCursor(w) ==
    /\ w_pc[w] = "check"
    /\ w_kind[w] = "user_favlist"
    /\ IF ~Truthy(Get(data[w], "has_more"))
       THEN /\ w_pc' = [w_pc EXCEPT ![w] = "done"]
            /\ UNCHANGED params
       ELSE /\ params' = [v \in Walks |->
                  IF w_kind[v] = "user_favlist" /\ params[v] # JsonNull
                  THEN SetItem(params[v], "page", params[v].page + 1)
                  ELSE params[v]]
            /\ w_pc' = [w_pc EXCEPT ![w] = "call"]
    /\ UNCHANGED << w_kind, user_id, data, w_idx, w_yielded, w_reqs, w_pages,
                    w_error, w_pulls, log >>
    /\ UNCHANGED notWalkVars

\* lines 161-163: a false data.get("has_more") ends the walk, otherwise the
\* page number goes up by one
FavHasMore(w) ==
    /\ w_pc[w] = "check"
    /\ w_kind[w] = "user_favlist"
    /\ IF ~Truthy(Get(data[w], "has_more"))
       THEN /\ w_pc' = [w_pc EXCEPT ![w] = "done"]
            /\ UNCHANGED params
       ELSE /\ params' = [params EXCEPT ![w] =
                             SetItem(@, "page", @.page + 1)]
            /\ w_pc' = [w_pc EXCEPT ![w] = "call"]
    /\ UNCHANGED << w_kind, user_id, data, w_idx, w_yielded, w_reqs, w_pages,
                    w_error, w_pulls, log >>
    /\ UNCHANGED notWalkVars

InitWalk == LocIdle /\ WalkIdle /\ AsmIdle /\ FavIdle /\ server = "any"

\* one listing, consumed by one caller
NextWalk ==
    \/ CallListing(1)
    \/ Pull(1)
    \/ ApiCall(1)
    \/ ArticlesItems(1)
    \/ ArticlesHasMore(1)
    \/ FavItems(1)
    \/ FavHasMore(1)

SpecWalk == InitWalk /\ [][NextWalk]_vars

\* two walks of one API client: each is called at any time and the caller
\* asks either for its next item in any order
InitTwoWalks ==
    /\ LocIdle
    /\ WalkIdle
    /\ AsmIdle
    /\ FavIdle
    /\ server = "few"

NextTwoWalks ==
    \E w \in Walks :
        \/ CallListing(w)
        \/ Pull(w)
        \/ ApiCall(w)
        \/ ArticlesItems(w)
        \/ ArticlesHasMore(w)
        \/ FavItems(w)
        \/ FavHasMore(w)

SpecTwoWalks == InitTwoWalks /\ [][NextTwoWalks]_vars

----------------------------------------------------------------------------
(***************************************************************************)
(* BilibiliUserArticlesFavoriteExtractor.articles.  Every extractor w runs *)
(* articles() once, statement by statement; the extractors of one process  *)
(* share the class attribute _warning and the session's cookies, and their  *)
(* statements interleave when they run on threads of their own.            *)
(***************************************************************************)
\* Extractor.cookies_check(names): the session has all these cookies
cookies_check(names) == names \subseteq cookies

\* line 103: articles() is called and reads self._warning
FavArticles(w) ==
    /\ fav_pc[w] = "idle"
    /\ fav_pc' = [fav_pc EXCEPT ![w] =
                     IF fav_warning THEN "check" ELSE "return"]
    /\ UNCHANGED << fav_warning, cookies, fav_checks, server, log >>
    /\ UNCHANGED << locVars, walkVars, asmVars >>

\* line 104: the session is checked for the SESSDATA cookie
FavCookiesCheck(w) ==
    /\ fav_pc[w] = "check"
    /\ fav_checks' = fav_checks + 1
    /\ fav_pc' = [fav_pc EXCEPT ![w] =
                     IF cookies_check({"SESSDATA"}) THEN "clear"
                     ELSE "error"]
    /\ UNCHANGED << fav_warning, cookies, server, log >>
    /\ UNCHANGED << locVars, walkVars, asmVars >>

\* line 105: the missing cookie is logged
FavLogError(w) ==
    /\ fav_pc[w] = "error"
    /\ log' = Append(log, [level |-> "error",
                           msg |-> "'SESSDATA' cookie required",
                           arg |-> JsonNull])
    /\ fav_pc' = [fav_pc EXCEPT ![w] = "clear"]
    /\ UNCHANGED << fav_warning, cookies, fav_checks, server >>
    /\ UNCHANGED << locVars, walkVars, asmVars >>

\* line 106: the class attribute is set to False
FavClearWarning(w) ==
    /\ fav_pc[w] = "clear"
    /\ fav_warning' = FALSE
    /\ fav_pc' = [fav_pc EXCEPT ![w] = "return"]
    /\ UNCHANGED << cookies, fav_checks, server, log >>
    /\ UNCHANGED << locVars, walkVars, asmVars >>

\* line 107: api.user_favlist() is called and its generator returned
FavReturn(w) ==
    /\ fav_pc[w] = "return"
    /\ w_pc[w] = "idle"
    /\ w_kind' = [w_kind EXCEPT ![w] = "user_favlist"]
    /\ w_pc' = [w_pc EXCEPT ![w] = "created"]
    /\ fav_pc' = [fav_pc EXCEPT ![w] = "returned"]
    /\ UNCHANGED << user_id, params, data, w_idx, w_yielded, w_reqs, w_pages,
                    w_error, w_pulls >>
    /\ UNCHANGED << fav_warning, cookies, fav_checks, server, log >>
    /\ UNCHANGED << locVars, asmVars >>

\* a process in which no favorites extractor has run yet, with or without
\* the SESSDATA cookie
InitFav ==
    /\ LocIdle
    /\ WalkIdle
    /\ AsmIdle
    /\ fav_pc = [w \in Walks |-> "idle"]
    /\ fav_warning = TRUE
    /\ cookies \in {{}, {"SESSDATA"}, {"SESSDATA", "buvid3"}}
    /\ fav_checks = 0
    /\ server = "few"

NextFav ==
    \E w \in Walks :
        \/ FavArticles(w)
        \/ FavCookiesCheck(w)
        \/ FavLogError(w)
        \/ FavClearWarning(w)
        \/ FavReturn(w)
        \/ Pull(w)
        \/ ApiCall(w)
        \/ FavItems(w)
        \/ FavHasMore(w)

SpecFav == InitFav /\ [][NextFav]_vars

----------------------------------------------------------------------------
(***************************************************************************)
(* BilibiliArticleExtractor.items.  The article goes through the phases    *)
(* "Start", "ModulesFlattened", "AuthorResolved", "TopCollected",          *)
(* "PicturesCollected", "Emitting" and "Emitted", or ends in "Failed".     *)
(***************************************************************************)
KeyError(key) == [cls |-> "KeyError", msg |-> << key >>]

\* FlattenLoop with setdefault in place of update: the first module that
\* carries a key keeps it
RECURSIVE FlattenLoop_FirstWins(_, _, _, _)
FlattenLoop_FirstWins(id, mods, i, acc) ==
    IF i > Len(mods) THEN acc
    ELSE LET module == mods[i]
             blocked == module.module_type = "MODULE_TYPE_BLOCKED"
         IN  IF blocked /\ "module_blocked" \notin DOMAIN module
             THEN [acc EXCEPT !.error = KeyError("module_blocked")]
             ELSE FlattenLoop_FirstWins(id, mods, i + 1,
                    [modules |-> Update(Del(module, "module_type"),
                                        acc.modules),
                     warnings |->
                        IF blocked
                        THEN Append(acc.warnings,
                               [level |-> "warning",
                                msg |-> "%s: Blocked Article\n%s",
                                arg |-> << id, Get(module.module_blocked,
                                                   "hint_message") >>])
                        ELSE acc.warnings,
                     error |-> NoError])

\* lines 48-53 from module i on; acc holds the dict modules, the warnings
\* logged and the exception raised so far
RECURSIVE FlattenLoop(_, _, _, _)
FlattenLoop(id, mods, i, acc) ==
    IF i > Len(mods) THEN acc
    ELSE LET module == mods[i]
             blocked == module.module_type = "MODULE_TYPE_BLOCKED"
         IN  IF blocked /\ "module_blocked" \notin DOMAIN module
             THEN [acc EXCEPT !.error = KeyError("module_blocked")]
             ELSE FlattenLoop(id, mods, i + 1,
                    [modules |-> Update(acc.modules,
                                        Del(module, "module_type")),
                     warnings |->
                        IF blocked
                        THEN Append(acc.warnings,
                               [level |-> "warning",
                                msg |-> "%s: Blocked Article\n%s",
                                arg |-> << id, Get(module.module_blocked,
                                                   "hint_message") >>])
                        ELSE acc.warnings,
                     error |-> NoError])

\* lines 46-54: flatten the modules list
Flatten ==
    /\ asm_pc = "Start"
    /\ LET r == FlattenLoop(article_id, article.detail.modules, 1,
                    [modules |-> EmptyDict, warnings |-> << >>,
                     error |-> NoError])
       IN  /\ log' = log \o r.warnings
           /\ IF r.error # NoError
              THEN /\ asm_error' = r.error
                   /\ asm_pc' = "Failed"
                   /\ UNCHANGED << article, modules >>
              ELSE /\ modules' = r.modules
                   /\ article' = SetItem(article, "detail",
                          SetItem(article.detail, "modules", r.modules))
                   /\ asm_pc' = "ModulesFlattened"
                   /\ UNCHANGED asm_error
    /\ UNCHANGED << asm_doc, pics, asm_num, asm_events >>
    /\ UNCHANGED notAsmVars

\* ResolveAuthor with .get() in place of the subscripts: an article without
\* author gets the username null and goes on
ResolveAuthor_Lenient ==
    /\ asm_pc = "ModulesFlattened"
    /\ article' = SetItem(article, "username",
          IF "module_author" \in DOMAIN modules
          THEN Get(modules.module_author, "name")
          ELSE "null")
    /\ asm_pc' = "AuthorResolved"
    /\ UNCHANGED << asm_doc, modules, pics, asm_num, asm_events, asm_error,
                    log >>
    /\ UNCHANGED notAsmVars

\* line 56: article["username"] = modules["module_author"]["name"]
ResolveAuthor ==
    /\ asm_pc = "ModulesFlattened"
    /\ IF "module_author" \notin DOMAIN modules
       THEN /\ asm_error' = KeyError("module_author")
            /\ asm_pc' = "Failed"
            /\ UNCHANGED article
       ELSE IF "name" \notin DOMAIN modules.module_author
       THEN /\ asm_error' = KeyError("name")
            /\ asm_pc' = "Failed"
            /\ UNCHANGED article
       ELSE /\ article' = SetItem(article, "username",
                                  modules.module_author.name)
            /\ asm_pc' = "AuthorResolved"
            /\ UNCHANGED asm_error
    /\ UNCHANGED << asm_doc, modules, pics, asm_num, asm_events, log >>
    /\ UNCHANGED notAsmVars

\* lines 61-64: modules["module_top"]["display"]["album"]["pics"], nothing
\* when a key on the way is missing
TopPics(top) ==
    IF /\ "display" \in DOMAIN top
       /\ "album" \in DOMAIN top.display
       /\ "pics" \in DOMAIN top.display.album
    THEN top.display.album.pics
    ELSE << >>

\* lines 58-64: the pictures of the album
CollectTop ==
    /\ asm_pc = "AuthorResolved"
    /\ pics' = IF "module_top" \in DOMAIN modules
               THEN TopPics(modules.module_top)
               ELSE << >>
    /\ asm_pc' = "TopCollected"
    /\ UNCHANGED << asm_doc, article, modules, asm_num, asm_events,
                    asm_error, log >>
    /\ UNCHANGED notAsmVars

\* ParagraphsPics with break in place of continue: a paragraph without a pic
\* key ends the loop
RECURSIVE ParagraphsPics_Break(_, _)
ParagraphsPics_Break(paragraphs, i) ==
    IF i > Len(paragraphs) THEN << >>
    ELSE LET paragraph == paragraphs[i]
         IN  IF "pic" \notin DOMAIN paragraph
             THEN << >>
             ELSE IF "pics" \in DOMAIN paragraph.pic
             THEN paragraph.pic.pics
                     \o ParagraphsPics_Break(paragraphs, i + 1)
             ELSE ParagraphsPics_Break(paragraphs, i + 1)

\* lines 67-74 from paragraph i on: what the loop appends to pics
RECURSIVE ParagraphsPics(_, _)
ParagraphsPics(paragraphs, i) ==
    IF i > Len(paragraphs) THEN << >>
    ELSE LET paragraph == paragraphs[i]
         IN  IF "pic" \notin DOMAIN paragraph
             THEN ParagraphsPics(paragraphs, i + 1)
             ELSE IF "pics" \in DOMAIN paragraph.pic
             THEN paragraph.pic.pics \o ParagraphsPics(paragraphs, i + 1)
             ELSE ParagraphsPics(paragraphs, i + 1)

\* lines 66-74: the pictures of the paragraphs
CollectContent ==
    /\ asm_pc = "TopCollected"
    /\ IF "module_content" \notin DOMAIN modules
       THEN /\ asm_pc' = "PicturesCollected"
            /\ UNCHANGED << pics, asm_error >>
       ELSE IF "paragraphs" \notin DOMAIN modules.module_content
       THEN /\ asm_error' = KeyError("paragraphs")
            /\ asm_pc' = "Failed"
            /\ UNCHANGED pics
       ELSE /\ pics' = pics \o
                   ParagraphsPics(modules.module_content.paragraphs, 1)
            /\ asm_pc' = "PicturesCollected"
            /\ UNCHANGED asm_error
    /\ UNCHANGED << asm_doc, article, modules, asm_num, asm_events, log >>
    /\ UNCHANGED notAsmVars

\* lines 76-77: the count, then the directory message
EmitDirectory ==
    /\ asm_pc = "PicturesCollected"
    /\ article' = SetItem(article, "count", Len(pics))
    /\ asm_events' = Append(asm_events,
          [msg |-> "Directory", data |-> article'])
    /\ asm_pc' = "Emitting"
    /\ UNCHANGED << asm_doc, modules, pics, asm_num, asm_error, log >>
    /\ UNCHANGED notAsmVars

\* text.nameext_from_url(url, data): filename and extension from the url
nameext_from_url(url, d) ==
    SetItem(SetItem(d, "filename", << "name", url >>),
            "extension", << "ext", url >>)

\* EmitItem that merges each picture into a copy of the directory record
EmitItem_Copy ==
    /\ asm_pc = "Emitting"
    /\ asm_num < Len(pics)
    /\ LET pic == pics[asm_num + 1]
           numbered == SetItem(asm_events[1].data, "num", asm_num + 1)
       IN  IF "url" \notin DOMAIN pic
           THEN /\ article' = numbered
                /\ asm_error' = KeyError("url")
                /\ asm_pc' = "Failed"
                /\ UNCHANGED << asm_num, asm_events >>
           ELSE /\ article' = nameext_from_url(pic.url, Update(numbered, pic))
                /\ asm_events' = Append(asm_events,
                      [msg |-> "Url", url |-> pic.url, data |-> article'])
                /\ asm_num' = asm_num + 1
                /\ UNCHANGED << asm_pc, asm_error >>
    /\ UNCHANGED << asm_doc, modules, pics, log >>
    /\ UNCHANGED notAsmVars

\* lines 78-81: the next picture is merged into article and yielded
EmitItem ==
    /\ asm_pc = "Emitting"
    /\ asm_num < Len(pics)
    /\ LET pic == pics[asm_num + 1]
           numbered == SetItem(article, "num", asm_num + 1)
       IN  IF "url" \notin DOMAIN pic
           THEN /\ article' = numbered
                /\ asm_error' = KeyError("url")
                /\ asm_pc' = "Failed"
                /\ UNCHANGED << asm_num, asm_events >>
           ELSE /\ article' = nameext_from_url(pic.url, Update(numbered, pic))
                /\ asm_events' = Append(asm_events,
                      [msg |-> "Url", url |-> pic.url, data |-> article'])
                /\ asm_num' = asm_num + 1
                /\ UNCHANGED << asm_pc, asm_error >>
    /\ UNCHANGED << asm_doc, modules, pics, log >>
    /\ UNCHANGED notAsmVars

\* line 78: the loop over pics is exhausted and the generator returns
EmitEnd ==
    /\ asm_pc = "Emitting"
    /\ asm_num = Len(pics)
    /\ asm_pc' = "Emitted"
    /\ UNCHANGED << asm_doc, article, modules, pics, asm_num, asm_events,
                    asm_error, log >>
    /\ UNCHANGED notAsmVars

\* lines 43-44: article() has returned the document of the article
InitAssemble ==
    /\ article_id \in ArticleIds
    /\ loc_pc = "idle"
    /\ page = << >>
    /\ loc_result = NoValue
    /\ loc_error = NoError
    /\ loc_events = << >>
    /\ loc_served = << >>
    /\ WalkIdle
    /\ asm_doc \in ModuleLists
    /\ asm_pc = "Start"
    /\ article = [id |-> article_id, detail |-> [modules |-> asm_doc]]
    /\ modules = EmptyDict
    /\ pics = << >>
    /\ asm_num = 0
    /\ asm_events = << >>
    /\ asm_error = NoError
    /\ FavIdle
    /\ server = "any"

NextAssemble ==
    \/ Flatten
    \/ ResolveAuthor
    \/ CollectTop
    \/ CollectContent
    \/ EmitDirectory
    \/ EmitItem
    \/ EmitEnd

SpecAssemble == InitAssemble /\ [][NextAssemble]_vars

----------------------------------------------------------------------------
(***************************************************************************)
(* Properties of BilibiliAPI.article                                       *)
(***************************************************************************)
ServedChallenge(i) == ~loc_served[i].parsable /\ loc_served[i].risk
ServedParsable(i) == loc_served[i].parsable
ServedMalformed(i) == ~loc_served[i].parsable /\ ~loc_served[i].risk

\* every page but the last was a challenge page
ChallengesThenLast ==
    /\ Len(loc_served) >= 1
    /\ \A i \in 1..(Len(loc_served) - 1) : ServedChallenge(i)

\* the events are request, wait, request, ..., request: every wait lies
\* between two requests and lasts 300 seconds
RequestsAndWaitsAlternate ==
    \A i \in 1..Len(loc_events) :
        IF i % 2 = 1
        THEN loc_events[i].op = "request"
             /\ loc_events[i].url = ArticleUrl(article_id)
        ELSE loc_events[i].op = "wait" /\ loc_events[i].seconds = 300

NumEvents(op) ==
    Cardinality({i \in 1..Len(loc_events) : loc_events[i].op = op})

\* C1: once n challenge pages followed by one parsable page were fetched and
\* the last page was looked at, article() has returned the parsed payload of
\* the last page after exactly n+1 fetches and exactly n waits of 300
\* seconds, each wait between two consecutive fetches.
C1_ChallengesThenPayload ==
    (/\ ChallengesThenLast
     /\ ServedParsable(Len(loc_served))
     /\ loc_pc # "parse")
    => LET n == Len(loc_served) - 1
       IN  /\ loc_pc = "returned"
           /\ loc_error = NoError
           /\ loc_result = json_loads(InitialStateText(page))
           /\ NumEvents("request") = n + 1
           /\ NumEvents("wait") = n
           /\ Len(loc_events) = 2 * n + 1
           /\ RequestsAndWaitsAlternate

\* two challenge pages, then a payload: returned after two waits
C1_Witness ==
    /\ loc_pc = "returned"
    /\ Len(loc_served) = 3
    /\ ServedChallenge(1) /\ ServedChallenge(2)
    /\ NumEvents("wait") = 2

\* C2: once a page that cannot be parsed and has no risk-control marker was
\* fetched and looked at, article() has raised AbortExtraction with the
\* article id in the message; the fetch of that page is the last event, so no
\* wait and no fetch follows it, whether it was the first page or came after
\* challenge pages.
C2_MalformedIsFatal ==
    (/\ Len(loc_served) >= 1
     /\ ServedMalformed(Len(loc_served))
     /\ loc_pc # "parse")
    => /\ loc_pc = "raised"
       /\ loc_error.cls = "AbortExtraction"
       /\ loc_error.msg[1] = article_id
       /\ loc_result = NoValue
       /\ Len(loc_events) = 2 * Len(loc_served) - 1
       /\ loc_events[Len(loc_events)].op = "request"
       /\ NumEvents("wait") = Len(loc_served) - 1

\* a malformed page after two challenge retries
C2_Witness ==
    /\ loc_pc = "raised"
    /\ Len(loc_served) = 3
    /\ ServedChallenge(1) /\ ServedChallenge(2)
    /\ ServedMalformed(3)

AllChallenges == \A i \in 1..Len(loc_served) : ServedChallenge(i)

\* C3: while every fetched page is a challenge page article() has neither
\* returned nor raised, a challenge page is followed by a wait and the wait by
\* the next fetch, and a parsable page, once served, is returned.
C3_ChallengeAbsorbed ==
    /\ [](AllChallenges => loc_pc \notin {"returned", "raised"})
    /\ [][(loc_pc = "parse" /\ IsChallenge(page)) => loc_pc' = "wait"]_vars
    /\ [][loc_pc = "wait" => (loc_pc' = "request"
                              /\ Len(loc_events') = Len(loc_events) + 1)]_vars
    /\ \A n \in 1..(MaxChallenges + 1) :
          (loc_pc = "parse" /\ IsChallenge(page) /\ Len(loc_served) = n)
              ~> (loc_pc = "parse" /\ Len(loc_served) = n + 1)
    /\ (loc_pc = "parse" /\ json_valid(InitialStateText(page)))
          ~> (loc_pc = "returned"
              /\ loc_result = json_loads(InitialStateText(page)))

\* the call is in its second cooldown and has not failed
C3_Witness ==
    /\ AllChallenges
    /\ Len(loc_served) = 2
    /\ loc_pc = "wait"
    /\ loc_error = NoError

----------------------------------------------------------------------------
(***************************************************************************)
(* Properties of the listing walks                                         *)
(***************************************************************************)
\* the items a response gives the caller
ItemsOfPage(resp) == IF resp.code = 0 THEN resp.data.items ELSE << >>

\* the items of the first k responses, in page order and array order
RECURSIVE ItemsUpTo(_, _)
ItemsUpTo(pages, k) ==
    IF k = 0 THEN << >>
    ELSE ItemsUpTo(pages, k - 1) \o ItemsOfPage(pages[k])

AllSuccessful(w) == \A k \in 1..Len(w_pages[w]) : w_pages[w][k].code = 0

HasMoreIs(resp, v) == "has_more" \in DOMAIN resp.data /\ resp.data.has_more = v
HasMoreAbsent(resp) == "has_more" \notin DOMAIN resp.data

\* the walk w has dealt with its last response: it is not in the middle of
\* the page
PageFinished(w) ==
    /\ Len(w_pages[w]) >= 1
    /\ w_pc[w] \notin {"loop", "suspended", "check"}

Ended(w) == w_pc[w] \in {"done", "raised"}

C5_FavPaging ==
    \A w \in Walks :
        w_kind[w] = "user_favlist"
        => LET n == Len(w_pages[w])
           IN  /\ Len(w_reqs[w]) = n
               /\ \A k \in 1..n :
                     /\ w_reqs[w][k].params = [page |-> k, page_size |-> 20]
                     /\ w_reqs[w][k].url = << ApiRoot, "/opus/feed/fav" >>
               /\ \A k \in 1..(n - 1) :
                     /\ w_pages[w][k].code = 0
                     /\ HasMoreIs(w_pages[w][k], "true")
               /\ (PageFinished(w) /\ w_pages[w][n].code = 0)
                     => IF HasMoreIs(w_pages[w][n], "true")
                        THEN w_pc[w] = "call"
                             /\ params[w] = [page |-> n + 1, page_size |-> 20]
                        ELSE /\ w_pc[w] = "done"
                             /\ w_error[w] = NoError
                             /\ w_yielded[w] = ItemsUpTo(w_pages[w], n)

\* a walk that ended on a second page without has_more
C5_Witness ==
    /\ w_kind[1] = "user_favlist"
    /\ w_pc[1] = "done"
    /\ Len(w_pages[1]) = 2
    /\ HasMoreAbsent(w_pages[1][2])
    /\ Len(w_yielded[1]) >= 2

CursorAfter(uid, items) ==
    IF items = << >>
    THEN [host_mid |-> uid]
    ELSE [host_mid |-> uid, offset |-> items[Len(items)].opus_id]

\* C7 as stated: the first request carries host_mid only; the cursor changes
\* once per page, after the page, so within a page the parameters are those
\* of the last request; every later request carries an offset, the opus_id
\* of the last item yielded so far.
C7_CursorPerPage ==
    \A w \in Walks :
        (w_kind[w] = "user_articles" /\ Len(w_reqs[w]) >= 1)
        => LET n == Len(w_reqs[w])
           IN  /\ w_reqs[w][1].params = [host_mid |-> user_id[w]]
               /\ w_pc[w] \in {"loop", "suspended"}
                     => params[w] = w_reqs[w][n].params
               /\ \A k \in 2..n :
                     /\ "offset" \in DOMAIN w_reqs[w][k].params
                     /\ ItemsUpTo(w_pages[w], k - 1) # << >>
                     /\ w_reqs[w][k].params =
                           CursorAfter(user_id[w],
                                       ItemsUpTo(w_pages[w], k - 1))

\* C7, amended: the first request carries host_mid = user id and no offset;
\* the cursor is set once per item, right before the item is yielded, so at
\* every moment the parameters hold the opus_id of the last item yielded so
\* far; every later request carries host_mid unchanged and that offset, or no
\* offset when no item has been yielded yet.
C7_CursorPerItem ==
    \A w \in Walks :
        (w_kind[w] = "user_articles" /\ w_pc[w] \notin {"idle", "created"})
        => /\ params[w] = CursorAfter(user_id[w], w_yielded[w])
           /\ \A k \in 1..Len(w_reqs[w]) :
                 /\ w_reqs[w][k].url = << ApiRoot, "/opus/feed/space" >>
                 /\ w_reqs[w][k].params =
                       CursorAfter(user_id[w], ItemsUpTo(w_pages[w], k - 1))

\* an empty first page, then a page with two different items: the second
\* request has no offset, the third that of the second item
C7_Witness ==
    /\ w_kind[1] = "user_articles"
    /\ Len(w_reqs[1]) = 3
    /\ "offset" \notin DOMAIN w_reqs[1][2].params
    /\ w_pages[1][2].data.items = << Item("o1"), Item("o2") >>
    /\ w_reqs[1][3].params = [host_mid |-> user_id[1], offset |-> "o2"]

\* the responses all of whose items the caller has got
PagesConsumed(w) ==
    {k \in 1..Len(w_pages[w]) :
        Len(ItemsUpTo(w_pages[w], k)) <= Len(w_yielded[w])}

\* C8: no request is sent before the first pull; request k+1 is sent only
\* when the caller has got every item of pages 1..k and has pulled once
\* more; the requests never outnumber the consumed pages by more than one;
\* and a request is only ever sent while a pull is being served, so a caller
\* that stops pulling causes none.
C8_LazyPaging ==
    /\ [](\A w \in Walks :
            LET n == Len(w_reqs[w])
            IN  /\ w_pc[w] \in {"idle", "created"} => n = 0 /\ w_pulls[w] = 0
                /\ n >= 1 =>
                      w_pulls[w] >= 1 + Len(ItemsUpTo(w_pages[w], n - 1))
                /\ n >= 1 =>
                      Len(w_yielded[w]) >= Len(ItemsUpTo(w_pages[w], n - 1))
                /\ n <= 1 + Cardinality(PagesConsumed(w))
                /\ Len(w_yielded[w]) <= w_pulls[w])
    /\ [][\A w \in Walks :
            w_reqs'[w] # w_reqs[w] =>
                /\ Running(w)
                /\ w_pulls[w] = Len(w_yielded[w]) + 1
                /\ w_pulls'[w] = w_pulls[w]]_vars

\* the caller holds the first item of the second page, the second has not
\* been asked for: two requests so far
C8_Witness ==
    /\ w_pc[1] = "suspended"
    /\ Len(w_reqs[1]) = 2
    /\ Len(w_pages[1][2].data.items) = 2
    /\ Len(w_yielded[1]) = Len(ItemsUpTo(w_pages[1], 1)) + 1

NumDebug == Cardinality({i \in 1..Len(log) : log[i].level = "debug"})

FailedWalks ==
    {w \in Walks : \E k \in 1..Len(w_pages[w]) : w_pages[w][k].code # 0}

\* C9: when the response to request k of a listing walk has a nonzero code,
\* the walk has raised AbortExtraction, has yielded the items of the earlier
\* pages only, has logged that response once at debug level, and request k
\* is its last request.
C9_EnvelopeFailure ==
    /\ NumDebug = Cardinality(FailedWalks)
    /\ \A w \in FailedWalks :
          LET n == Len(w_pages[w])
          IN  /\ w_pages[w][n].code # 0
              /\ \A k \in 1..(n - 1) : w_pages[w][k].code = 0
              /\ w_pc[w] = "raised"
              /\ w_error[w] = AbortExtraction("API request failed")
              /\ w_yielded[w] = ItemsUpTo(w_pages[w], n - 1)
              /\ n = 1 => w_yielded[w] = << >>
              /\ Len(w_reqs[w]) = n
              /\ \E i \in 1..Len(log) :
                    /\ log[i].level = "debug"
                    /\ log[i].arg = w_pages[w][n]

\* the second request fails with items in its data: only the items of the
\* first page were yielded
C9_Witness ==
    /\ w_pc[1] = "raised"
    /\ Len(w_pages[1]) = 2
    /\ w_pages[1][2].code # 0
    /\ "items" \in DOMAIN w_pages[1][2].data
    /\ Len(w_yielded[1]) = 2
    /\ NumDebug = 1

----------------------------------------------------------------------------
(***************************************************************************)
(* Properties of BilibiliArticleExtractor.items                            *)
(***************************************************************************)
\* the positions in the document of the modules that carry the key
ModulesWith(key) == {i \in 1..Len(asm_doc) : key \in DOMAIN asm_doc[i]}

Max(S) == CHOOSE x \in S : \A y \in S : y <= x

\* the payload the document gives for the key
Payload(key) == asm_doc[Max(ModulesWith(key))][key]

\* the album of the document: the pictures of module_top.display.album
DocAlbum ==
    IF ModulesWith("module_top") = {} THEN << >>
    ELSE LET top == Payload("module_top")
         IN  IF "display" \in DOMAIN top
                /\ "album" \in DOMAIN top.display
                /\ "pics" \in DOMAIN top.display.album
             THEN top.display.album.pics
             ELSE << >>

\* the paragraphs of the document
DocParagraphs ==
    IF ModulesWith("module_content") = {} THEN << >>
    ELSE LET content == Payload("module_content")
         IN  IF "paragraphs" \in DOMAIN content THEN content.paragraphs
             ELSE << >>

\* the pictures paragraph c contributes
DocParagraphPics(c) ==
    LET paragraph == DocParagraphs[c]
    IN  IF "pic" \in DOMAIN paragraph /\ "pics" \in DOMAIN paragraph.pic
        THEN paragraph.pic.pics
        ELSE << >>

\* the number of pictures the first c paragraphs contribute
RECURSIVE DocParagraphCount(_)
DocParagraphCount(c) ==
    IF c = 0 THEN 0
    ELSE DocParagraphCount(c - 1) + Len(DocParagraphPics(c))

PicturesCollected == asm_pc \in {"PicturesCollected", "Emitting", "Emitted"}

\* C10: once the pictures are collected, the list holds T + p_1 + ... + p_C
\* pictures: the T pictures of the album in array order, then the pictures
\* of the paragraphs in document order, each paragraph's in array order; a
\* paragraph without pic, a missing module_top and a missing module_content
\* contribute nothing.
C10_PictureList ==
    PicturesCollected
    => LET T == Len(DocAlbum)
           C == Len(DocParagraphs)
       IN  /\ Len(pics) = T + DocParagraphCount(C)
           /\ \A i \in 1..T : pics[i] = DocAlbum[i]
           /\ \A c \in 1..C :
                 \A i \in 1..Len(DocParagraphPics(c)) :
                    pics[T + DocParagraphCount(c - 1) + i]
                        = DocParagraphPics(c)[i]

\* an album of two pictures, a paragraph without pic and a paragraph of two
\* pictures: four pictures, the album's first
C10_Witness ==
    /\ asm_pc = "Emitted"
    /\ Len(DocAlbum) = 2
    /\ Len(DocParagraphs) = 2
    /\ "pic" \notin DOMAIN DocParagraphs[1]
    /\ Len(DocParagraphPics(2)) = 2
    /\ Len(pics) = 4
    /\ pics[2].url = << 0, 2 >>
    /\ pics[4].url = << 2, 2 >>

----------------------------------------------------------------------------
\* the item messages emitted so far: message k + 1 is item k
ItemEvent(i) == asm_events[i + 1]

NumItems == IF asm_events = << >> THEN 0 ELSE Len(asm_events) - 1

\* C11: the record of item i has num = i and the url and the fields of
\* pics[i], whatever keys the pictures carry, and the record of the directory
\* message has count = Len(pics).
C11_Numbering ==
    /\ asm_events # << >> => asm_events[1].data.count = Len(pics)
    /\ \A i \in 1..NumItems :
          /\ ItemEvent(i).data.num = i
          /\ ItemEvent(i).url = pics[i].url
          /\ \A key \in DOMAIN pics[i] \ {"num"} :
                ItemEvent(i).data[key] = pics[i][key]

\* C11: the first picture of the album carries num = 7, and the record of
\* item 1 has num = 7
C11_NumOverwritten ==
    /\ NumItems >= 1
    /\ "num" \in DOMAIN pics[1]
    /\ ItemEvent(1).data.num = 7

\* the blocked modules of the document, in list order
IsBlocked(module) == module.module_type = "MODULE_TYPE_BLOCKED"

BlockedModules == SelectSeq(asm_doc, IsBlocked)

IsWarning(entry) == entry.level = "warning"

Warnings == SelectSeq(log, IsWarning)

\* the document has an author with a name
ValidAuthor ==
    /\ ModulesWith("module_author") # {}
    /\ "name" \in DOMAIN Payload("module_author")

\* the document has no module_content, or one with paragraphs
ValidContent ==
    \/ ModulesWith("module_content") = {}
    \/ "paragraphs" \in DOMAIN Payload("module_content")

\* C12: an article with a blocked module, a valid author and well-formed
\* picture modules does not fail; once flattened it has logged one warning
\* per blocked module, with the article id and the hint message if there is
\* one, and it ends with the directory message and one item per picture.
\* This holds with or without a hint message and with or without a
\* module_blocked payload.
C12_BlockedIsNotFatal ==
    (BlockedModules # << >> /\ ValidAuthor /\ ValidContent)
    => /\ asm_pc # "Failed"
       /\ asm_pc # "Start"
          => /\ Len(Warnings) = Len(BlockedModules)
             /\ \A k \in 1..Len(Warnings) :
                   /\ Warnings[k].arg[1] = article_id
                   /\ "module_blocked" \in DOMAIN BlockedModules[k]
                      => Warnings[k].arg[2]
                            = Get(BlockedModules[k].module_blocked,
                                  "hint_message")
       /\ asm_pc = "Emitted" => Len(asm_events) = 1 + Len(pics)

\* C12: a blocked module without module_blocked payload has ended the
\* article of a valid author with KeyError, before any message
C12_BlockedAborts ==
    /\ ValidAuthor
    /\ ValidContent
    /\ \E k \in 1..Len(BlockedModules) :
          "module_blocked" \notin DOMAIN BlockedModules[k]
    /\ asm_pc = "Failed"
    /\ asm_error = KeyError("module_blocked")
    /\ asm_events = << >>

\* the position of a phase in the order of items()
PhaseRank(pc) ==
    CASE pc = "Start" -> 0
      [] pc = "ModulesFlattened" -> 1
      [] pc = "AuthorResolved" -> 2
      [] pc = "TopCollected" -> 3
      [] pc = "PicturesCollected" -> 4
      [] pc = "Emitting" -> 5
      [] pc = "Emitted" -> 6
      [] OTHER -> 7

\* the messages are the directory message, then item messages only
DirectoryThenItems ==
    \A k \in 1..Len(asm_events) :
        asm_events[k].msg = IF k = 1 THEN "Directory" ELSE "Url"

\* C13: an article goes through Start, ModulesFlattened, AuthorResolved,
\* PicturesCollected and Emitted in this order and never back; no message is
\* emitted before the author is resolved and the picture list is complete,
\* the list does not change afterwards, the messages are one directory
\* message followed by item messages only, N of them once Emitted; an
\* article without author entry fails at ModulesFlattened, with no message.
C13_PhaseOrder ==
    /\ [](/\ DirectoryThenItems
          /\ asm_events # << >>
             => /\ asm_pc \in {"Emitting", "Emitted"}
                /\ "username" \in DOMAIN asm_events[1].data
                /\ Len(asm_events) <= 1 + Len(pics)
          /\ asm_pc = "Emitted" => Len(asm_events) = 1 + Len(pics)
          /\ ~ValidAuthor
             => /\ asm_pc \in {"Start", "ModulesFlattened", "Failed"}
                /\ asm_events = << >>)
    /\ [][/\ asm_pc # "Failed"
            => \/ asm_pc' = "Failed"
               \/ PhaseRank(asm_pc') \in
                     {PhaseRank(asm_pc), PhaseRank(asm_pc) + 1}
          /\ asm_pc = "Failed" => asm_pc' = "Failed"
          /\ asm_events # << >> => pics' = pics
          /\ \/ asm_events' = asm_events
             \/ \E e \in {asm_events'[Len(asm_events')]} :
                   asm_events' = Append(asm_events, e)
          /\ (asm_pc = "ModulesFlattened" /\ ~ValidAuthor)
             => (asm_pc' = "Failed" /\ asm_error'.cls = "KeyError")]_vars

\* an article of two pictures is emitted: the directory message and two
\* items
C13_Witness ==
    /\ asm_pc = "Emitted"
    /\ Len(pics) = 2
    /\ Len(asm_events) = 3
    /\ asm_events[1].msg = "Directory"
    /\ asm_events[3].msg = "Url"

\* every blocked module of the document has its payload
ValidBlocked ==
    \A k \in 1..Len(BlockedModules) :
        "module_blocked" \in DOMAIN BlockedModules[k]

\* C14: a mismatch inside module_top (no display, album or pics), inside
\* module_content (no paragraphs list) or inside a paragraph (a pic without
\* pics) raises no error: an article that flattens and has an author does
\* not fail, and it is emitted with the pictures of its other sources.
C14_CollectionAbsorbs ==
    (ValidBlocked /\ ValidAuthor)
    => /\ asm_pc # "Failed"
       /\ asm_pc = "Emitted"
          => /\ Len(pics) = Len(DocAlbum)
                               + DocParagraphCount(Len(DocParagraphs))
             /\ Len(asm_events) = 1 + Len(pics)

\* C14: a module_content without paragraphs has ended an article with
\* KeyError after its album was collected, and nothing was emitted
C14_MissingParagraphsAborts ==
    /\ ValidBlocked
    /\ ValidAuthor
    /\ ~ValidContent
    /\ Len(DocAlbum) >= 1
    /\ pics = DocAlbum
    /\ asm_pc = "Failed"
    /\ asm_error = KeyError("paragraphs")
    /\ asm_events = << >>

\* an error of the abort class with a message
IsAbort(error) == error.cls = "AbortExtraction" /\ error.msg # << >>

\* C15: every structural failure is raised as AbortExtraction with a
\* message: a page that is neither parsable nor a challenge, a response
\* with a nonzero code, and an article without module_author or without its
\* name.
C15_AbortClass ==
    /\ loc_pc = "raised" => IsAbort(loc_error)
    /\ \A w \in FailedWalks : IsAbort(w_error[w])
    /\ (asm_pc = "Failed" /\ ValidBlocked /\ ~ValidAuthor)
       => IsAbort(asm_error)

\* C15: an article without author entry has failed with a KeyError that
\* carries only the missing key
C15_AuthorKeyError ==
    /\ ValidBlocked
    /\ ModulesWith("module_author") = {}
    /\ asm_pc = "Failed"
    /\ asm_error = KeyError("module_author")

\* the modules list has been flattened
Flattened ==
    \/ PhaseRank(asm_pc) \in 1..6
    \/ asm_pc = "Failed" /\ asm_error # KeyError("module_blocked")

\* the mapping as a module: the loop of lines 47-54 reads module_type of
\* everything it iterates over
AsModule(mapping) == SetItem(mapping, "module_type", "MODULE_TYPE_FLAT")

\* C16: the flattened mapping has no module_type key, has the payload keys
\* of all modules and no others, each with the value of the last module
\* that carries it, and it replaces the list in the article; flattening
\* the mapping again gives the mapping.
C16_Flattening ==
    Flattened
    => /\ "module_type" \notin DOMAIN modules
       /\ DOMAIN modules =
             UNION {DOMAIN asm_doc[i] \ {"module_type"} :
                       i \in 1..Len(asm_doc)}
       /\ \A key \in DOMAIN modules : modules[key] = Payload(key)
       /\ article.detail.modules = modules
       /\ FlattenLoop(article_id, << AsModule(modules) >>, 1,
                      [modules |-> EmptyDict, warnings |-> << >>,
                       error |-> NoError]).modules = modules

\* three modules, two of them authors: the flattened mapping has the last
\* author and the payload of the blocked module
C16_Witness ==
    /\ asm_pc = "ModulesFlattened"
    /\ Len(asm_doc) = 3
    /\ ModulesWith("module_author") = {1, 3}
    /\ asm_doc[1].module_author = [name |-> "alice"]
    /\ modules.module_author = [name |-> "bob"]
    /\ DOMAIN modules = {"module_author", "module_blocked"}

----------------------------------------------------------------------------
(***************************************************************************)
(* Properties of BilibiliUserArticlesFavoriteExtractor.articles            *)
(***************************************************************************)
IsCookieError(entry) ==
    entry.level = "error" /\ entry.msg = "'SESSDATA' cookie required"

CookieErrors == SelectSeq(log, IsCookieError)

\* C17: however the favorites listings of the extractors of one process
\* follow each other or interleave, the cookie is checked at most once and
\* the message is logged at most once; every listing that has returned,
\* also the one that found the cookie missing, has the user_favlist walk,
\* and all its requests go to the favorites endpoint.
C17_WarnOnce ==
    /\ fav_checks <= 1
    /\ Len(CookieErrors) <= 1
    /\ \A w \in Walks :
          /\ fav_pc[w] = "returned"
             => (w_kind[w] = "user_favlist" /\ w_pc[w] # "idle")
          /\ \A k \in 1..Len(w_reqs[w]) :
                w_reqs[w][k].url = << ApiRoot, "/opus/feed/fav" >>

\* C17: two extractors have both read _warning before either cleared it:
\* the cookie was checked twice and the message logged twice, and both
\* listings have sent their first request
C17_CheckedTwice ==
    /\ fav_checks = 2
    /\ Len(CookieErrors) = 2
    /\ \A w \in Walks : fav_pc[w] = "returned" /\ Len(w_reqs[w]) >= 1

----------------------------------------------------------------------------
(***************************************************************************)
(* Properties of two walks of one API client                               *)
(***************************************************************************)
\* the parameters of request k of walk w when it runs alone: they follow
\* from the responses w itself has received
AloneParams(w, k) ==
    IF w_kind[w] = "user_articles"
    THEN CursorAfter(user_id[w], ItemsUpTo(w_pages[w], k - 1))
    ELSE [page |-> k, page_size |-> 20]

IsPrefix(s, t) ==
    Len(s) <= Len(t) /\ \A i \in 1..Len(s) : s[i] = t[i]

\* the first k responses of v and w are the same
SamePages(v, w, k) ==
    /\ Len(w_pages[v]) >= k
    /\ Len(w_pages[w]) >= k
    /\ \A j \in 1..k : w_pages[v][j] = w_pages[w][j]

\* C18: every walk starts from the initial cursor, whatever walks ran
\* before it; when the items of two walks are asked for in any order, the
\* parameters of every request of a walk and the items it yields follow
\* from its own responses as they do when it runs alone, and two walks of
\* the same listing that got the same responses sent the same requests.
C18_CursorOwnership ==
    /\ \A w \in Walks :
          w_kind[w] # "none"
          => /\ Len(w_reqs[w]) >= 1
                => w_reqs[w][1].params =
                      IF w_kind[w] = "user_articles"
                      THEN [host_mid |-> user_id[w]]
                      ELSE [page |-> 1, page_size |-> 20]
             /\ \A k \in 1..Len(w_reqs[w]) :
                   w_reqs[w][k].params = AloneParams(w, k)
             /\ IsPrefix(w_yielded[w],
                         ItemsUpTo(w_pages[w], Len(w_pages[w])))
             /\ Ended(w)
                => w_yielded[w] = ItemsUpTo(w_pages[w], Len(w_pages[w]))
    /\ \A v, w \in Walks :
          (w_kind[v] = w_kind[w] /\ user_id[v] = user_id[w])
          => \A k \in 1..Len(w_reqs[v]) :
                (Len(w_reqs[w]) >= k /\ SamePages(v, w, k - 1))
                => w_reqs[v][k] = w_reqs[w][k]

\* two favorites walks both stand at an item of their second page: neither
\* has ended, each has sent the requests for page 1 and page 2
C18_Witness ==
    /\ \A w \in Walks :
          /\ w_kind[w] = "user_favlist"
          /\ w_pc[w] = "suspended"
          /\ Len(w_reqs[w]) = 2
          /\ w_reqs[w][2].params = [page |-> 2, page_size |-> 20]
    /\ w_yielded[1] # w_yielded[2]

----------------------------------------------------------------------------
\* a successful page without items whose has_more is true
EmptyAndMore(resp) ==
    /\ Continues(resp)
    /\ resp.data.items = << >>

\* C19: in a user_articles walk a successful page without items and with a
\* true has_more leaves the cursor as it is: the walk yields nothing, does
\* not end and sends the next request with the parameters of the one
\* before; a walk that has ended has ended on a page whose has_more is not
\* true, or on an error.
C19_EmptyPageRepeats ==
    \A w \in Walks :
        w_kind[w] = "user_articles"
        => LET n == Len(w_pages[w])
           IN  /\ \A k \in 1..n :
                     EmptyAndMore(w_pages[w][k])
                     => /\ ItemsUpTo(w_pages[w], k)
                              = ItemsUpTo(w_pages[w], k - 1)
                        /\ k < n => w_reqs[w][k + 1] = w_reqs[w][k]
                        /\ (k = n /\ PageFinished(w))
                           => /\ w_pc[w] = "call"
                              /\ params[w] = w_reqs[w][k].params
               /\ Ended(w)
                  => /\ n >= 1
                     /\ ~Continues(w_pages[w][n])
                     /\ \A k \in 1..(n - 1) : Continues(w_pages[w][k])

\* two pages without items and has_more true, then an end: three requests
\* with the same parameters, and nothing yielded
C19_Witness ==
    /\ w_kind[1] = "user_articles"
    /\ Len(w_reqs[1]) = 3
    /\ EmptyAndMore(w_pages[1][1])
    /\ EmptyAndMore(w_pages[1][2])
    /\ w_reqs[1][1].params = [host_mid |-> "42"]
    /\ w_reqs[1][3] = w_reqs[1][1]
    /\ w_pc[1] = "done"
    /\ w_yielded[1] = << >>

----------------------------------------------------------------------------
\* the pictures up to picture i that carry the key
Carriers(key, i) == {j \in 1..i : key \in DOMAIN pics[j]}

\* the record of the directory message: the article's own fields
OwnRecord == asm_events[1].data

\* the fields items() itself sets for every item
ItemFields == {"num", "filename", "extension"}

\* C20 as stated: the record of item i holds, for each key, the value of
\* the latest picture up to i that carries the key; a key no picture up to
\* i carries has the article's own value, or is one of num, filename and
\* extension.
C20_LatestPictureWins ==
    \A i \in 1..NumItems :
        LET rec == ItemEvent(i).data
        IN  /\ DOMAIN rec = DOMAIN OwnRecord \cup ItemFields
                  \cup UNION {DOMAIN pics[j] : j \in 1..i}
            /\ \A key \in DOMAIN rec :
                  IF Carriers(key, i) # {}
                  THEN rec[key] = pics[Max(Carriers(key, i))][key]
                  ELSE key \in ItemFields \/ rec[key] = OwnRecord[key]

\* C20: all messages of an article carry the one record article, updated in
\* place.  The record of item i holds, for each key but num, filename and
\* extension, the value of the latest picture up to i that carries the key,
\* and the article's own value when none does, so a field of an earlier
\* picture stays in the records of later items; num is picture i's own num
\* when it carries one and i otherwise, filename and extension are those of
\* picture i's url.
C20_InPlaceRecord ==
    /\ asm_events # << >> => article = asm_events[Len(asm_events)].data
    /\ \A i \in 1..NumItems :
          LET rec == ItemEvent(i).data
          IN  /\ DOMAIN rec = DOMAIN OwnRecord \cup ItemFields
                    \cup UNION {DOMAIN pics[j] : j \in 1..i}
              /\ \A key \in DOMAIN rec \ ItemFields :
                    IF Carriers(key, i) # {}
                    THEN rec[key] = pics[Max(Carriers(key, i))][key]
                    ELSE rec[key] = OwnRecord[key]
              /\ rec.num = IF "num" \in DOMAIN pics[i] THEN pics[i].num
                           ELSE i
              /\ rec = nameext_from_url(pics[i].url, rec)

\* the second picture has no width: the record of item 2 has the width of
\* the first picture and the height of the second
C20_Witness ==
    /\ asm_pc = "Emitted"
    /\ NumItems = 2
    /\ "width" \in DOMAIN pics[1]
    /\ "width" \notin DOMAIN pics[2]
    /\ "height" \in DOMAIN pics[2]
    /\ ItemEvent(2).data.width = pics[1].width
    /\ ItemEvent(2).data.height = pics[2].height
    /\ ItemEvent(2).data.num = 2

====
